---- MODULE Spec2Model ----
(***************************************************************************)
(* Shadow casting of museum_lightening: the boundary ray caster, the       *)
(* shadow polygon builder, the scaled boolean operations, the per-frame    *)
(* aggregation in `update`, and the grab / drag / drop systems.            *)
(*                                                                         *)
(* Numbers.  The program computes in f32.  A value is modelled as a record *)
(* [k, n, d]: k = "num" is the finite number n/d in lowest terms (d > 0;   *)
(* n = 0 is +0.0), "nz" is -0.0, "pinf" and "ninf" are the infinities and  *)
(* "nan" is NaN.  The special values, the sign of zero and the rules for   *)
(* division by zero follow IEEE 754 as f32 does; finite results are exact  *)
(* (the rounding of f32 to 24 bits is not modelled).                       *)
(***************************************************************************)
EXTENDS Integers, Sequences, FiniteSets

VARIABLES
    lights,     \* the Transforms of the Light entities, in spawn order
    obstacles,  \* the Transforms of the Obstacle entities, in spawn order
    dragging,   \* the Light entities (indices into lights) that carry Dragging
    mouse,      \* Input<MouseButton> for the left button
    coords,     \* the resource WorldCoords
    shadows,    \* the Shadow entities of the world
    queue,      \* the deferred commands of each system, not yet applied
    pending,    \* the systems of Update that have not run yet in this frame
    phase,      \* "run": Update is running; "applied": its commands are applied
    parity,     \* the parity of the frame count
    panicked,   \* a system panicked: the application is gone
    computed,   \* the light positions the last run of update saw, and how it ended
    call,       \* pure-function harness: the arguments of the call
    ret         \* pure-function harness: what the call returned (NoRet before)

world == <<lights, obstacles, dragging, mouse, coords, shadows, queue, pending,
           phase, parity, panicked, computed>>
vars == <<world, call, ret>>

(***************************************************************************)
(* f32 arithmetic                                                          *)
(***************************************************************************)
Abs(i) == IF i < 0 THEN -i ELSE i

RECURSIVE Gcd(_, _)
Gcd(a, b) == IF b = 0 THEN a ELSE Gcd(b, a % b)

\* The finite number n/d (d # 0), in lowest terms with a positive denominator.
Num(n, d) ==
    LET g == Gcd(Abs(n), Abs(d))
        s == IF d < 0 THEN -1 ELSE 1
    IN  [k |-> "num", n |-> s * (n \div g), d |-> s * (d \div g)]

I(i) == [k |-> "num", n |-> i, d |-> 1]
NegZero == [k |-> "nz", n |-> 0, d |-> 1]
PInf == [k |-> "pinf", n |-> 0, d |-> 1]
NInf == [k |-> "ninf", n |-> 0, d |-> 1]
NaN == [k |-> "nan", n |-> 0, d |-> 1]

IsNaN(a) == a.k = "nan"
IsInf(a) == a.k \in {"pinf", "ninf"}
IsFinite(a) == a.k \in {"num", "nz"}
IsZero(a) == a.k = "nz" \/ (a.k = "num" /\ a.n = 0)
\* The sign bit.
SignBit(a) == a.k \in {"nz", "ninf"} \/ (a.k = "num" /\ a.n < 0)
SignedZero(neg) == IF neg THEN NegZero ELSE I(0)
SignedInf(neg) == IF neg THEN NInf ELSE PInf

\* Unary minus: flips the sign bit.
FNeg(a) ==
    CASE a.k = "nan" -> NaN
      [] a.k = "pinf" -> NInf
      [] a.k = "ninf" -> PInf
      [] a.k = "nz" -> I(0)
      [] OTHER -> IF a.n = 0 THEN NegZero ELSE [a EXCEPT !.n = -a.n]

\* a + b.  A zero sum is +0.0 unless both operands are -0.0.
FAdd(a, b) ==
    CASE IsNaN(a) \/ IsNaN(b) -> NaN
      [] IsInf(a) /\ IsInf(b) -> IF a.k = b.k THEN a ELSE NaN
      [] IsInf(a) -> a
      [] IsInf(b) -> b
      [] IsZero(a) /\ IsZero(b) -> SignedZero(a.k = "nz" /\ b.k = "nz")
      [] IsZero(a) -> b
      [] IsZero(b) -> a
      [] OTHER ->
            LET g == Gcd(a.d, b.d)
            IN  Num(a.n * (b.d \div g) + b.n * (a.d \div g), (a.d \div g) * b.d)

FSub(a, b) == FAdd(a, FNeg(b))

\* a * b.  0 * inf is NaN; the sign of the result is the xor of the signs.
FMul(a, b) ==
    LET neg == SignBit(a) # SignBit(b) IN
    CASE IsNaN(a) \/ IsNaN(b) -> NaN
      [] (IsZero(a) /\ IsInf(b)) \/ (IsInf(a) /\ IsZero(b)) -> NaN
      [] IsInf(a) \/ IsInf(b) -> SignedInf(neg)
      [] IsZero(a) \/ IsZero(b) -> SignedZero(neg)
      [] OTHER ->
            LET g1 == Gcd(Abs(a.n), b.d)
                g2 == Gcd(Abs(b.n), a.d)
            IN  Num((a.n \div g1) * (b.n \div g2), (a.d \div g2) * (b.d \div g1))

\* a / b.  0/0 and inf/inf are NaN; x/0 is an infinity whose sign is the xor
\* of the signs of x and of the zero.
FDiv(a, b) ==
    LET neg == SignBit(a) # SignBit(b) IN
    CASE IsNaN(a) \/ IsNaN(b) -> NaN
      [] (IsZero(a) /\ IsZero(b)) \/ (IsInf(a) /\ IsInf(b)) -> NaN
      [] IsInf(a) \/ IsZero(b) -> SignedInf(neg)
      [] IsInf(b) \/ IsZero(a) -> SignedZero(neg)
      [] OTHER ->
            LET g1 == Gcd(Abs(a.n), Abs(b.n))
                g2 == Gcd(a.d, b.d)
            IN  Num((a.n \div g1) * (b.d \div g2), (a.d \div g2) * (b.n \div g1))

\* a < b.  Every comparison with NaN is false; -0.0 and +0.0 compare equal.
FLt(a, b) ==
    CASE IsNaN(a) \/ IsNaN(b) -> FALSE
      [] a.k = "pinf" \/ b.k = "ninf" -> FALSE
      [] a.k = "ninf" \/ b.k = "pinf" -> TRUE
      [] OTHER -> a.n * b.d < b.n * a.d

\* a == b as f32 compares: NaN equals nothing, -0.0 equals +0.0.
FEq(a, b) ==
    CASE IsNaN(a) \/ IsNaN(b) -> FALSE
      [] IsInf(a) \/ IsInf(b) -> a.k = b.k
      [] OTHER -> a.n = b.n /\ a.d = b.d

FLe(a, b) == FLt(a, b) \/ FEq(a, b)

(***************************************************************************)
(* Vec2                                                                    *)
(***************************************************************************)
Vec2(x, y) == [x |-> x, y |-> y]
\* A vector of two integers.
V(i, j) == Vec2(I(i), I(j))
VSub(v, u) == Vec2(FSub(v.x, u.x), FSub(v.y, u.y))
VAdd(v, u) == Vec2(FAdd(v.x, u.x), FAdd(v.y, u.y))
\* Vec2 == Vec2 compares both components as f32.
VEq(v, u) == FEq(v.x, u.x) /\ FEq(v.y, u.y)

(***************************************************************************)
(* The world                                                               *)
(***************************************************************************)
WORLD_WIDTH == 960
WORLD_HEIGHT == 720

\* (Vec2(-WORLD_WIDTH / 2, -WORLD_HEIGHT / 2), Vec2(WORLD_WIDTH / 2, WORLD_HEIGHT / 2))
WorldBoundary ==
    <<Vec2(Num(-WORLD_WIDTH, 2), Num(-WORLD_HEIGHT, 2)),
      Vec2(Num(WORLD_WIDTH, 2), Num(WORLD_HEIGHT, 2))>>

(***************************************************************************)
(* calculate_intersection_to_world_bondary                                 *)
(***************************************************************************)
\* s: the ray parameter at which the ray meets the vertical edge it heads for.
VerticalEdgeHit(u, ray, world_boundary) ==
    IF FLt(ray.x, I(0))
    THEN FDiv(FSub(world_boundary[1].x, u.x), ray.x)
    ELSE FDiv(FSub(world_boundary[2].x, u.x), ray.x)

\* t: the ray parameter at which the ray meets the horizontal edge it heads for.
HorizontalEdgeHit(u, ray, world_boundary) ==
    IF FLt(ray.y, I(0))
    THEN FDiv(FSub(world_boundary[1].y, u.y), ray.y)
    ELSE FDiv(FSub(world_boundary[2].y, u.y), ray.y)

\* A mutation of the branch test: the later edge is taken instead of the earlier.
ExitPointSwapped(u, ray, s, t, world_boundary) ==
    IF FLt(t, s)
    THEN IF FLt(ray.x, I(0))
         THEN Vec2(world_boundary[1].x, FAdd(u.y, FMul(ray.y, s)))
         ELSE Vec2(world_boundary[2].x, FAdd(u.y, FMul(ray.y, s)))
    ELSE IF FLt(ray.y, I(0))
         THEN Vec2(FAdd(u.x, FMul(ray.x, t)), world_boundary[1].y)
         ELSE Vec2(FAdd(u.x, FMul(ray.x, t)), world_boundary[2].y)

\* if s < t { the vertical edge } else { the horizontal edge }
ExitPoint(u, ray, s, t, world_boundary) ==
    IF FLt(s, t)
    THEN IF FLt(ray.x, I(0))
         THEN Vec2(world_boundary[1].x, FAdd(u.y, FMul(ray.y, s)))
         ELSE Vec2(world_boundary[2].x, FAdd(u.y, FMul(ray.y, s)))
    ELSE IF FLt(ray.y, I(0))
         THEN Vec2(FAdd(u.x, FMul(ray.x, t)), world_boundary[1].y)
         ELSE Vec2(FAdd(u.x, FMul(ray.x, t)), world_boundary[2].y)

\* The exit point of the ray that starts at u with direction ray.
RayExit(u, ray, world_boundary) ==
    ExitPoint(u, ray, VerticalEdgeHit(u, ray, world_boundary),
              HorizontalEdgeHit(u, ray, world_boundary), world_boundary)

\* The point where the ray from u through v leaves world_boundary = <<min, max>>.
CalculateIntersectionToWorldBoundary(u, v, world_boundary) ==
    RayExit(u, VSub(v, u), world_boundary)

(***************************************************************************)
(* Transform and calculate_vertices                                        *)
(*                                                                         *)
(* A Transform is [translation, scale, rotation]: translation and scale    *)
(* are Vec2 (z plays no part in the geometry) and rotation is the angle    *)
(* about z in degrees.                                                     *)
(***************************************************************************)
Transform(translation, scale, rotation) ==
    [translation |-> translation, scale |-> scale, rotation |-> rotation]

\* Vec2::from_angle: (cos, sin) of the angle.  0 degrees is exact; the values
\* at -60 and -45 degrees are irrational and are taken as short fractions
\* (cos 60 = 1/2, sin 60 ~ 13/15, cos 45 = sin 45 ~ 7/10).
FromAngle(deg) ==
    CASE deg = 0 -> Vec2(I(1), I(0))
      [] deg = -60 -> Vec2(Num(1, 2), Num(-13, 15))
      [] deg = -45 -> Vec2(Num(7, 10), Num(-7, 10))

\* Vec2::rotate: self is (cos, sin).
Rotate(rotation, rhs) ==
    Vec2(FSub(FMul(rotation.x, rhs.x), FMul(rotation.y, rhs.y)),
         FAdd(FMul(rotation.y, rhs.x), FMul(rotation.x, rhs.y)))

\* The four corners: bottom-left, bottom-right, top-right, top-left.
CalculateVertices(transform) ==
    LET rotation == FromAngle(transform.rotation)
        size == transform.scale
        translation == transform.translation
        nx == FDiv(FNeg(size.x), I(2))
        ny == FDiv(FNeg(size.y), I(2))
        px == FDiv(size.x, I(2))
        py == FDiv(size.y, I(2))
    IN  <<VAdd(Rotate(rotation, Vec2(nx, ny)), translation),
          VAdd(Rotate(rotation, Vec2(px, ny)), translation),
          VAdd(Rotate(rotation, Vec2(px, py)), translation),
          VAdd(Rotate(rotation, Vec2(nx, py)), translation)>>

(***************************************************************************)
(* Planar predicates of crate geo, on finite points                        *)
(***************************************************************************)
VFinite(p) == IsFinite(p.x) /\ IsFinite(p.y)

\* Integers beyond 32 bits, for the exact orientation test: a natural number
\* is the sequence of its digits in base Base, lowest first, without leading
\* zeros (0 is the empty sequence); an integer is [neg, mag].
Base == 100 * 100

RECURSIVE NatDigits(_)
NatDigits(n) == IF n = 0 THEN <<>> ELSE <<n % Base>> \o NatDigits(n \div Base)

RECURSIVE NatAdd(_, _, _)
NatAdd(a, b, carry) ==
    IF a = <<>> /\ b = <<>>
    THEN IF carry = 0 THEN <<>> ELSE <<carry>>
    ELSE LET x == (IF a = <<>> THEN 0 ELSE Head(a))
                  + (IF b = <<>> THEN 0 ELSE Head(b)) + carry
         IN  <<x % Base>> \o NatAdd(IF a = <<>> THEN a ELSE Tail(a),
                                    IF b = <<>> THEN b ELSE Tail(b), x \div Base)

RECURSIVE Trim(_)
Trim(a) == IF a # <<>> /\ a[Len(a)] = 0 THEN Trim(SubSeq(a, 1, Len(a) - 1)) ELSE a

\* a - b for a >= b, before the leading zeros are trimmed.
RECURSIVE NatSubRaw(_, _, _)
NatSubRaw(a, b, borrow) ==
    IF a = <<>>
    THEN <<>>
    ELSE LET x == Head(a) - (IF b = <<>> THEN 0 ELSE Head(b)) - borrow
         IN  <<x % Base>> \o NatSubRaw(Tail(a), IF b = <<>> THEN b ELSE Tail(b),
                                       IF x < 0 THEN 1 ELSE 0)

\* -1, 0, 1 as a < b, a = b, a > b.
RECURSIVE NatCmpFrom(_, _, _)
NatCmpFrom(a, b, i) ==
    IF i = 0 THEN 0
    ELSE IF a[i] < b[i] THEN -1
    ELSE IF a[i] > b[i] THEN 1
    ELSE NatCmpFrom(a, b, i - 1)

NatCmp(a, b) ==
    IF Len(a) < Len(b) THEN -1
    ELSE IF Len(a) > Len(b) THEN 1
    ELSE NatCmpFrom(a, b, Len(a))

\* a * m + carry for a digit m.
RECURSIVE NatMulDigit(_, _, _)
NatMulDigit(a, m, carry) ==
    IF a = <<>>
    THEN IF carry = 0 THEN <<>> ELSE <<carry>>
    ELSE LET x == Head(a) * m + carry
         IN  <<x % Base>> \o NatMulDigit(Tail(a), m, x \div Base)

RECURSIVE NatMul(_, _)
NatMul(a, b) ==
    IF a = <<>> \/ b = <<>>
    THEN <<>>
    ELSE LET rest == NatMul(a, Tail(b))
         IN  NatAdd(IF Head(b) = 0 THEN <<>> ELSE NatMulDigit(a, Head(b), 0),
                    IF rest = <<>> THEN rest ELSE <<0>> \o rest, 0)

Big(i) == [neg |-> i < 0, mag |-> NatDigits(Abs(i))]
Signed(neg, mag) == [neg |-> mag # <<>> /\ neg, mag |-> mag]
BigMul(a, b) == Signed(a.neg # b.neg, NatMul(a.mag, b.mag))
BigNeg(a) == [neg |-> a.mag # <<>> /\ ~a.neg, mag |-> a.mag]
BigAdd(a, b) ==
    IF a.neg = b.neg
    THEN [neg |-> a.neg, mag |-> NatAdd(a.mag, b.mag, 0)]
    ELSE LET c == NatCmp(a.mag, b.mag)
         IN  IF c = 0 THEN [neg |-> FALSE, mag |-> <<>>]
             ELSE IF c > 0 THEN [neg |-> a.neg, mag |-> Trim(NatSubRaw(a.mag, b.mag, 0))]
             ELSE [neg |-> b.neg, mag |-> Trim(NatSubRaw(b.mag, a.mag, 0))]
BigSub(a, b) == BigAdd(a, BigNeg(b))
BigSign(a) == IF a.mag = <<>> THEN 0 ELSE IF a.neg THEN -1 ELSE 1

\* The numerator of q - p over the denominator p.d * q.d.
DiffNum(q, p) == BigSub(BigMul(Big(q.n), Big(p.d)), BigMul(Big(p.n), Big(q.d)))

\* The exact orientation of three finite points (geo decides it with exact
\* arithmetic).  1: a, b, c turn counter-clockwise; -1: clockwise; 0: collinear.
\* The sign of (b.x - a.x) * (c.y - a.y) - (b.y - a.y) * (c.x - a.x), with
\* the positive denominators cleared.
Orient(a, b, c) ==
    IF a.x.d = 1 /\ a.y.d = 1 /\ b.x.d = 1 /\ b.y.d = 1 /\ c.x.d = 1 /\ c.y.d = 1
    THEN LET cross == (b.x.n - a.x.n) * (c.y.n - a.y.n)
                      - (b.y.n - a.y.n) * (c.x.n - a.x.n)
         IN  IF cross > 0 THEN 1 ELSE IF cross < 0 THEN -1 ELSE 0
    ELSE LET l == BigMul(BigMul(DiffNum(b.x, a.x), DiffNum(c.y, a.y)),
                         BigMul(Big(b.y.d), Big(c.x.d)))
             r == BigMul(BigMul(DiffNum(b.y, a.y), DiffNum(c.x, a.x)),
                         BigMul(Big(b.x.d), Big(c.y.d)))
         IN  BigSign(BigSub(l, r))

FMin(a, b) == IF FLt(b, a) THEN b ELSE a
FMax(a, b) == IF FLt(a, b) THEN b ELSE a

\* c lies in the bounding box of the segment a-b (c collinear with a, b: on it).
InBox(a, b, c) ==
    /\ FLe(FMin(a.x, b.x), c.x) /\ FLe(c.x, FMax(a.x, b.x))
    /\ FLe(FMin(a.y, b.y), c.y) /\ FLe(c.y, FMax(a.y, b.y))

\* Line intersects Line: the closed segments p1-p2 and q1-q2 share a point.
\* o1, o2: the sides of q1, q2 of the line p1-p2; o3, o4: those of p1, p2 of q1-q2.
SegmentsMeet(o1, o2, o3, o4, p1, p2, q1, q2) ==
    \/ (o1 # o2 /\ o3 # o4)
    \/ (o1 = 0 /\ InBox(p1, p2, q1))
    \/ (o2 = 0 /\ InBox(p1, p2, q2))
    \/ (o3 = 0 /\ InBox(q1, q2, p1))
    \/ (o4 = 0 /\ InBox(q1, q2, p2))

SegmentsIntersect(p1, p2, q1, q2) ==
    SegmentsMeet(Orient(p1, p2, q1), Orient(p1, p2, q2),
                 Orient(q1, q2, p1), Orient(q1, q2, p2), p1, p2, q1, q2)

\* The point p lies in the closed convex ring (a sequence of corners).
PointInRing(p, ring) ==
    LET n == Len(ring)
        o == {Orient(ring[i], ring[(i % n) + 1], p) : i \in 1..n}
    IN  ~({1, -1} \subseteq o)

\* Polygon intersects Line: the segment a-b meets the ring or lies inside it.
PolygonIntersectsLine(ring, a, b) ==
    \/ \E i \in 1..Len(ring) : SegmentsIntersect(ring[i], ring[(i % Len(ring)) + 1], a, b)
    \/ PointInRing(a, ring)

\* The corners of the convex hull of a finite set of finite points: p is a
\* corner when some line through p and another point q has every other point
\* strictly to its left, or on it and not behind p.
LeftOrAhead(o, p, q, r) ==
    \/ o = 1
    \/ o = 0 /\ (InBox(p, q, r) \/ InBox(p, r, q))

HullVertices(points) ==
    IF \A p \in points, q \in points : VEq(p, q)
    THEN points
    ELSE {p \in points :
            \E q \in points :
                /\ ~VEq(p, q)
                /\ \A r \in points : LeftOrAhead(Orient(p, q, r), p, q, r)}

Panic == [kind |-> "panic"]
Polygon(vertices) == [kind |-> "polygon", vertices |-> vertices]

\* MultiPoint::convex_hull.  On finite points the hull is the polygon of its
\* corners.  The hull orders the points by their coordinates; what it does
\* with a NaN or an infinite coordinate depends on the version of geo (the
\* comparison panics, or the point is ordered as an extreme one and kept):
\* nan_panics says which, and the callers leave it open.
ConvexHull(points, nan_panics) ==
    IF \A p \in points : VFinite(p)
    THEN Polygon(HullVertices(points))
    ELSE IF nan_panics
    THEN Panic
    ELSE Polygon(HullVertices({p \in points : VFinite(p)})
                 \cup {p \in points : ~VFinite(p)})

(***************************************************************************)
(* calculate_shadow_polygon_from_obstacle                                  *)
(***************************************************************************)
WORLD_VERTICES ==
    <<Vec2(Num(WORLD_WIDTH, 2), Num(WORLD_HEIGHT, 2)),
      Vec2(Num(-WORLD_WIDTH, 2), Num(WORLD_HEIGHT, 2)),
      Vec2(Num(-WORLD_WIDTH, 2), Num(-WORLD_HEIGHT, 2)),
      Vec2(Num(WORLD_WIDTH, 2), Num(-WORLD_HEIGHT, 2))>>

Range(seq) == {seq[i] : i \in 1..Len(seq)}

\* The boundary-cast points of the obstacle's corners.
CastPoints(light_position, obstacle_vertices, world_boundary) ==
    {CalculateIntersectionToWorldBoundary(light_position, obstacle_vertices[i],
                                          world_boundary) : i \in 1..4}

\* The world corners whose line of sight from the light crosses the obstacle.
HiddenCorners(light_position, obstacle_vertices) ==
    {v \in Range(WORLD_VERTICES) :
        PolygonIntersectsLine(obstacle_vertices, light_position, v)}

\* The points handed to the convex hull.
MultiPoints(light_position, obstacle_vertices, world_boundary) ==
    Range(obstacle_vertices)
    \cup CastPoints(light_position, obstacle_vertices, world_boundary)
    \cup HiddenCorners(light_position, obstacle_vertices)

CalculateShadowPolygonFromObstacle(light_position, obstacle_transform, world_boundary, nan_panics) ==
    ConvexHull(MultiPoints(light_position, CalculateVertices(obstacle_transform),
                           world_boundary),
               nan_panics)

(***************************************************************************)
(* geo_scaled: Scaling and ScaledBooleanOps                                *)
(*                                                                         *)
(* A MultiPolygon is a set of pieces and a piece is a set of convex        *)
(* polygons: the piece is their intersection (a single polygon is the      *)
(* piece {polygon}).  BooleanOps of crate geo is modelled by its set       *)
(* semantics on this form: a union collects the pieces of both operands,   *)
(* an intersection intersects them pairwise.  The merging of overlapping   *)
(* pieces into one ring and the dropping of pieces without area are not    *)
(* modelled.                                                               *)
(***************************************************************************)
EmptyMultiPolygon == {}
MultiPolygonOf(polygon) == {{polygon}}

\* f32::round: to the nearest integer, halves away from zero; the sign is kept.
FRound(a) ==
    IF a.k # "num" \/ a.n = 0
    THEN a
    ELSE LET m == (2 * Abs(a.n) + a.d) \div (2 * a.d)
         IN  IF m = 0 THEN SignedZero(a.n < 0)
             ELSE I(IF a.n < 0 THEN -m ELSE m)

\* Scaling for Polygon: every coordinate times scale, rounded.
ToIntegerPolygon(polygon, scale) ==
    Polygon({Vec2(FRound(FMul(c.x, scale)), FRound(FMul(c.y, scale))) :
                c \in polygon.vertices})
\* Scaling for Polygon: every coordinate divided by scale.
FromIntegerPolygon(polygon, scale) ==
    Polygon({Vec2(FDiv(c.x, scale), FDiv(c.y, scale)) : c \in polygon.vertices})

\* Scaling for MultiPolygon: polygon by polygon.
ToIntegerMultiPolygon(mp, scale) ==
    {{ToIntegerPolygon(p, scale) : p \in piece} : piece \in mp}
FromIntegerMultiPolygon(mp, scale) ==
    {{FromIntegerPolygon(p, scale) : p \in piece} : piece \in mp}

\* BooleanOps::union and BooleanOps::intersection.
BooleanUnion(p, q) == p \cup q
BooleanIntersection(p, q) == {a \cup b : a \in p, b \in q}

ScaledIntersection(self, other, scale) ==
    LET p == ToIntegerMultiPolygon(self, scale)
        q == ToIntegerMultiPolygon(other, scale)
    IN  FromIntegerMultiPolygon(BooleanIntersection(p, q), scale)

ScaledUnion(self, other, scale) ==
    LET p == ToIntegerMultiPolygon(self, scale)
        q == ToIntegerMultiPolygon(other, scale)
    IN  FromIntegerMultiPolygon(BooleanUnion(p, q), scale)

\* unimplemented!(): the call panics, whatever the operands.
\* xor left as a silent no-op: an empty region comes back.
XorEmpty(self, other) == [kind |-> "region", region |-> EmptyMultiPolygon]

Xor(self, other) == Panic
Difference(self, other) == Panic


(***************************************************************************)
(* setup, and the cursor                                                   *)
(***************************************************************************)
LIGHT_SIZE == 10
WINDOW_WIDTH == 1024
WINDOW_HEIGHT == 768

\* setup: the two lights (both Draggable) and the three obstacles.
SetupLights ==
    <<Transform(V(400, 0), V(LIGHT_SIZE, LIGHT_SIZE), 0),
      Transform(V(-400, 0), V(LIGHT_SIZE, LIGHT_SIZE), 0)>>
SetupObstacles ==
    <<Transform(V(0, -200), V(60, 100), 0),
      Transform(V(-50, 50), V(10, 300), -60),
      Transform(V(-350, -250), V(20, 70), -45)>>

\* Where the cursor can be in the window (None: outside it), in window
\* coordinates: origin top left, y down.
NoCursor == [kind |-> "none"]
CursorPositions ==
    {[kind |-> "some", x |-> 912, y |-> 384],    \* on the first light
     [kind |-> "some", x |-> 112, y |-> 384],    \* on the second light
     [kind |-> "some", x |-> 1012, y |-> 384]}   \* right of the world's edge

\* Camera::viewport_to_world for the camera of setup (at the origin, scale 1):
\* the window's centre is the world's origin and y is flipped.
ViewportToWorld(cursor) ==
    Vec2(FSub(I(cursor.x), Num(WINDOW_WIDTH, 2)), FSub(Num(WINDOW_HEIGHT, 2), I(cursor.y)))

\* Where a light can be: where setup puts it, or where the cursor drags it.
ReachableLightPositions ==
    {SetupLights[i].translation : i \in 1..Len(SetupLights)}
    \cup {ViewportToWorld(c) : c \in CursorPositions}

(***************************************************************************)
(* update: the aggregation                                                 *)
(***************************************************************************)
\* The scale the program passes to scaled_union and scaled_intersection (1e1).
SCALE == 10

\* The fold started from the whole world instead of the empty region.
RECURSIVE FoldObstaclesFromWorld(_, _, _)
FoldObstaclesFromWorld(polygons, n, scale) ==
    IF n = 0
    THEN MultiPolygonOf(Polygon(Range(WORLD_VERTICES)))
    ELSE ScaledUnion(FoldObstaclesFromWorld(polygons, n - 1, scale),
                     MultiPolygonOf(polygons[n]), scale)

\* obstacles.iter().map(shadow polygon).fold(empty, scaled_union): the fold
\* over the first n polygons of one light.
RECURSIVE FoldObstacles(_, _, _)
FoldObstacles(polygons, n, scale) ==
    IF n = 0
    THEN EmptyMultiPolygon
    ELSE ScaledUnion(FoldObstacles(polygons, n - 1, scale),
                     MultiPolygonOf(polygons[n]), scale)

\* shadow_polygons.iter().fold(empty, scaled_union) over the first n lights.
RECURSIVE FoldUnion(_, _, _)
FoldUnion(shadow_polygons, n, scale) ==
    IF n = 0
    THEN EmptyMultiPolygon
    ELSE ScaledUnion(FoldUnion(shadow_polygons, n - 1, scale), shadow_polygons[n], scale)

\* shadow_polygons.into_iter().reduce(scaled_intersection) over the first n >= 1.
RECURSIVE ReduceIntersection(_, _, _)
ReduceIntersection(shadow_polygons, n, scale) ==
    IF n = 1
    THEN shadow_polygons[1]
    ELSE ScaledIntersection(ReduceIntersection(shadow_polygons, n - 1, scale),
                            shadow_polygons[n], scale)

\* The shadow polygons of the application's obstacles for the light positions
\* the application can reach, computed once: a table of the values of
\* calculate_shadow_polygon_from_obstacle, which ShadowPolygon looks up.
ShadowPolygonTable ==
    {[light |-> l, obstacle |-> t, nan_panics |-> b,
      polygon |-> CalculateShadowPolygonFromObstacle(l, t, WorldBoundary, b)] :
        l \in ReachableLightPositions, t \in Range(SetupObstacles), b \in BOOLEAN}

ShadowPolygon(light_position, obstacle_transform, nan_panics) ==
    IF light_position \in ReachableLightPositions
       /\ obstacle_transform \in Range(SetupObstacles)
    THEN (CHOOSE e \in ShadowPolygonTable :
             /\ e.light = light_position
             /\ e.obstacle = obstacle_transform
             /\ e.nan_panics = nan_panics).polygon
    ELSE CalculateShadowPolygonFromObstacle(light_position, obstacle_transform,
                                            WorldBoundary, nan_panics)

\* The shadow polygon of every obstacle for every light.
ShadowPolygons(light_positions, obstacle_transforms, nan_panics) ==
    [i \in 1..Len(light_positions) |-> [j \in 1..Len(obstacle_transforms) |->
        ShadowPolygon(light_positions[i], obstacle_transforms[j], nan_panics)]]

\* The union region and the intersection region of the lights' shadow regions;
\* without a light, reduce gives None and unwrap panics.
AggregateShadows(shadow_polygons, scale) ==
    IF Len(shadow_polygons) = 0
    THEN Panic
    ELSE [kind |-> "regions",
          union |-> FoldUnion(shadow_polygons, Len(shadow_polygons), scale),
          intersection |-> ReduceIntersection(shadow_polygons, Len(shadow_polygons), scale)]

\* The shadow region of each light, then the two regions; a panic of a call of
\* calculate_shadow_polygon_from_obstacle ends update.
AggregatePolygons(polygons, no, scale) ==
    IF \E i \in 1..Len(polygons), j \in 1..no : polygons[i][j] = Panic
    THEN Panic
    ELSE AggregateShadows([i \in 1..Len(polygons) |-> FoldObstacles(polygons[i], no, scale)],
                          scale)

\* What update computes from the light positions and the obstacle transforms:
\* Panic, or the union region and the intersection region.
Aggregate(light_positions, obstacle_transforms, nan_panics) ==
    AggregatePolygons(ShadowPolygons(light_positions, obstacle_transforms, nan_panics),
                      Len(obstacle_transforms), I(SCALE))

\* The values of Aggregate for the application's obstacles and the light
\* positions the application can reach, computed once; Aggregated looks them up.
AggregateTable ==
    {[lights |-> <<l1, l2>>, nan_panics |-> b,
      regions |-> Aggregate(<<l1, l2>>, SetupObstacles, b)] :
        l1 \in ReachableLightPositions, l2 \in ReachableLightPositions,
        b \in BOOLEAN}

Aggregated(light_positions, obstacle_transforms, nan_panics) ==
    IF /\ obstacle_transforms = SetupObstacles
       /\ Len(light_positions) = 2
       /\ \A i \in 1..2 : light_positions[i] \in ReachableLightPositions
    THEN (CHOOSE e \in AggregateTable :
             e.lights = light_positions /\ e.nan_panics = nan_panics).regions
    ELSE Aggregate(light_positions, obstacle_transforms, nan_panics)

(***************************************************************************)
(* The application: setup, the frame loop and the systems of Update        *)
(*                                                                         *)
(* main adds the systems to Update without ordering them, so within a      *)
(* frame they run in any order, each once.  Commands are deferred: they    *)
(* are applied when the schedule has run.  Before the next run of Update   *)
(* the mouse events of the frame are folded into Input<MouseButton>.  The  *)
(* camera systems are left out: the camera stays where setup puts it.      *)
(***************************************************************************)
Systems == {"grab_object", "drag_object", "drop_object",
            "cursor_position_to_world_coordinate", "update"}

NoCommands == [sys \in Systems |-> <<>>]
NotComputed == [kind |-> "none"]
ReleasedMouse == [pressed |-> FALSE, just_pressed |-> FALSE, just_released |-> FALSE]

\* The world once Startup has run and its commands are applied.
SetupWorld ==
    /\ lights = SetupLights
    /\ obstacles = SetupObstacles
    /\ dragging = {}
    /\ mouse = ReleasedMouse
    /\ coords = V(0, 0)
    /\ shadows = {}
    /\ queue = NoCommands
    /\ pending = {}
    /\ phase = "applied"
    /\ parity = 0
    /\ panicked = FALSE
    /\ computed = NotComputed

\* collide_aabb::collide(a_pos, a_size, b_pos, b_size).is_some()
Collide(a_pos, a_size, b_pos, b_size) ==
    LET a_min == VSub(a_pos, Vec2(FDiv(a_size.x, I(2)), FDiv(a_size.y, I(2))))
        a_max == VAdd(a_pos, Vec2(FDiv(a_size.x, I(2)), FDiv(a_size.y, I(2))))
        b_min == VSub(b_pos, Vec2(FDiv(b_size.x, I(2)), FDiv(b_size.y, I(2))))
        b_max == VAdd(b_pos, Vec2(FDiv(b_size.x, I(2)), FDiv(b_size.y, I(2))))
    IN  /\ FLt(a_min.x, b_max.x) /\ FLt(b_min.x, a_max.x)
        /\ FLt(a_min.y, b_max.y) /\ FLt(b_min.y, a_max.y)

\* Input::press and Input::release.
Press(m) ==
    IF m.pressed THEN m ELSE [m EXCEPT !.pressed = TRUE, !.just_pressed = TRUE]
Release(m) ==
    IF m.pressed THEN [m EXCEPT !.pressed = FALSE, !.just_released = TRUE] ELSE m

\* The left-button events one frame can bring.
MouseEvents == {<<>>, <<"press">>, <<"release">>,
                <<"press", "release">>, <<"release", "press">>}

RECURSIVE ApplyEvents(_, _)
ApplyEvents(m, events) ==
    IF events = <<>>
    THEN m
    ELSE ApplyEvents(IF Head(events) = "press" THEN Press(m) ELSE Release(m),
                     Tail(events))

\* A system runs: it is pending, and is not afterwards.
Runs(sys) ==
    /\ phase = "run"
    /\ ~panicked
    /\ sys \in pending
    /\ pending' = pending \ {sys}

\* The frame's mouse events reach Input<MouseButton> (just_pressed and
\* just_released are cleared first) and Update starts.
MouseButtonInput ==
    /\ phase = "applied"
    /\ ~panicked
    /\ \E events \in MouseEvents :
          mouse' = ApplyEvents([mouse EXCEPT !.just_pressed = FALSE,
                                             !.just_released = FALSE], events)
    /\ phase' = "run"
    /\ pending' = Systems
    /\ parity' = 1 - parity
    /\ UNCHANGED <<lights, obstacles, dragging, coords, shadows, queue, panicked,
                   computed, call, ret>>

\* One command applied to <<dragging, shadows>>.
ApplyCommand(w, c) ==
    CASE c.op = "insert_dragging" -> <<w[1] \cup {c.entity}, w[2]>>
      [] c.op = "remove_dragging" -> <<w[1] \ {c.entity}, w[2]>>
      [] c.op = "despawn" -> <<w[1], w[2] \ c.entities>>
      [] c.op = "spawn" -> <<w[1], w[2] \cup c.entities>>

RECURSIVE ApplyCommands(_, _)
ApplyCommands(w, commands) ==
    IF commands = <<>>
    THEN w
    ELSE ApplyCommands(ApplyCommand(w, Head(commands)), Tail(commands))

\* Update has run: the commands of its systems are applied, system by system.
ApplyDeferred ==
    /\ phase = "run"
    /\ ~panicked
    /\ pending = {}
    /\ LET w == ApplyCommands(<<dragging, shadows>>,
                              queue["grab_object"] \o queue["drop_object"]
                              \o queue["update"])
       IN  /\ dragging' = w[1]
           /\ shadows' = w[2]
    /\ queue' = NoCommands
    /\ phase' = "applied"
    /\ UNCHANGED <<lights, obstacles, mouse, coords, pending, parity, panicked,
                   computed, call, ret>>

\* dragging.get_single().is_ok(): exactly one entity carries Dragging.
Single(set) == Cardinality(set) = 1

\* grab_object without its first test: a second marker can be inserted.
grab_object_unguarded ==
    /\ Runs("grab_object")
    /\ IF ~mouse.just_pressed
       THEN UNCHANGED queue
       ELSE LET hit == {e \in 1..Len(lights) :
                           Collide(coords, V(0, 0), lights[e].translation,
                                   Vec2(FMul(lights[e].scale.x, I(2)),
                                        FMul(lights[e].scale.y, I(2))))}
            IN  IF hit = {}
                THEN UNCHANGED queue
                ELSE \E e \in hit :
                        queue' = [queue EXCEPT !["grab_object"] =
                                     <<[op |-> "insert_dragging", entity |-> e]>>]
    /\ UNCHANGED <<lights, obstacles, dragging, mouse, coords, shadows, phase,
                   parity, panicked, computed, call, ret>>

\* grab_object.  The order in which the query yields the Draggable entities
\* is not fixed by the program: the first one hit is any one of those hit.
grab_object ==
    /\ Runs("grab_object")
    /\ IF Single(dragging) \/ ~mouse.just_pressed
       THEN UNCHANGED queue
       ELSE LET hit == {e \in 1..Len(lights) :
                           Collide(coords, V(0, 0), lights[e].translation,
                                   Vec2(FMul(lights[e].scale.x, I(2)),
                                        FMul(lights[e].scale.y, I(2))))}
            IN  IF hit = {}
                THEN UNCHANGED queue
                ELSE \E e \in hit :
                        queue' = [queue EXCEPT !["grab_object"] =
                                     <<[op |-> "insert_dragging", entity |-> e]>>]
    /\ UNCHANGED <<lights, obstacles, dragging, mouse, coords, shadows, phase,
                   parity, panicked, computed, call, ret>>

drag_object ==
    /\ Runs("drag_object")
    /\ IF ~mouse.pressed \/ ~Single(dragging)
       THEN UNCHANGED lights
       ELSE \E e \in dragging :
               lights' = [lights EXCEPT ![e].translation = coords]
    /\ UNCHANGED <<obstacles, dragging, mouse, coords, shadows, queue, phase,
                   parity, panicked, computed, call, ret>>

drop_object ==
    /\ Runs("drop_object")
    /\ IF mouse.just_released /\ Single(dragging)
       THEN \E e \in dragging :
               queue' = [queue EXCEPT !["drop_object"] =
                            <<[op |-> "remove_dragging", entity |-> e]>>]
       ELSE UNCHANGED queue
    /\ UNCHANGED <<lights, obstacles, dragging, mouse, coords, shadows, phase,
                   parity, panicked, computed, call, ret>>

cursor_position_to_world_coordinate ==
    /\ Runs("cursor_position_to_world_coordinate")
    /\ \E cursor \in CursorPositions \cup {NoCursor} :
          coords' = IF cursor = NoCursor THEN coords ELSE ViewportToWorld(cursor)
    /\ UNCHANGED <<lights, obstacles, dragging, mouse, shadows, queue, phase,
                   parity, panicked, computed, call, ret>>

\* The Shadow entities update spawns for a region: one for each of its polygons.
ShadowEntities(region, layer, born) ==
    {[layer |-> layer, polygon |-> piece, born |-> born] : piece \in region}

\* update that forgets to despawn the shadows of the frame before.
UpdateCommandsKeeping(old_shadows, regions, born) ==
    <<[op |-> "spawn", entities |-> ShadowEntities(regions.union, "union", born)],
      [op |-> "spawn",
       entities |-> ShadowEntities(regions.intersection, "intersection", born)]>>

\* The commands of update: despawn every Shadow entity there is, then spawn
\* the polygons of the union region and those of the intersection region.
UpdateCommands(old_shadows, regions, born) ==
    <<[op |-> "despawn", entities |-> old_shadows],
      [op |-> "spawn", entities |-> ShadowEntities(regions.union, "union", born)],
      [op |-> "spawn",
       entities |-> ShadowEntities(regions.intersection, "intersection", born)]>>

LightPositions == [i \in 1..Len(lights) |-> lights[i].translation]

\* What update does with the regions it computed.  create_polygon_mesh reads
\* vertices[0] of what earcut returns and panics on a polygon without a
\* triangle; which polygons of a region those are is not modelled, so
\* mesh_panics leaves it open for a non-empty region.
UpdateWith(regions, mesh_panics) ==
    IF \/ regions = Panic
       \/ mesh_panics /\ regions.union \cup regions.intersection # {}
    THEN /\ panicked' = TRUE
         /\ computed' = [kind |-> "panic", lights |-> LightPositions]
         /\ UNCHANGED queue
    ELSE /\ panicked' = FALSE
         /\ computed' = [kind |-> "regions", lights |-> LightPositions]
         /\ queue' = [queue EXCEPT !["update"] =
                         UpdateCommands(shadows, regions, parity)]

update ==
    /\ Runs("update")
    /\ \E nan_panics \in BOOLEAN, mesh_panics \in BOOLEAN :
          UpdateWith(Aggregated(LightPositions, obstacles, nan_panics), mesh_panics)
    /\ UNCHANGED <<lights, obstacles, dragging, mouse, coords, shadows, phase,
                   parity, call, ret>>

Init ==
    /\ SetupWorld
    /\ call = [fn |-> "none"]
    /\ ret = [kind |-> "none"]

Next ==
    \/ MouseButtonInput
    \/ grab_object
    \/ drag_object
    \/ drop_object
    \/ cursor_position_to_world_coordinate
    \/ update
    \/ ApplyDeferred

Spec == Init /\ [][Next]_vars

(***************************************************************************)
(* Harness of the pure functions: Init draws the arguments of one call,    *)
(* the action applies the function and records what it returned.           *)
(***************************************************************************)
NoRet == [kind |-> "none"]

\* Strictly inside / inside or on the rectangle b = <<min, max>>.
StrictlyInside(p, b) ==
    /\ FLt(b[1].x, p.x) /\ FLt(p.x, b[2].x)
    /\ FLt(b[1].y, p.y) /\ FLt(p.y, b[2].y)
WithinBoundary(p, b) ==
    /\ FLe(b[1].x, p.x) /\ FLe(p.x, b[2].x)
    /\ FLe(b[1].y, p.y) /\ FLe(p.y, b[2].y)
\* On the perimeter of b: one coordinate is an edge value, the other lies
\* within [min, max] of the other axis.
OnPerimeter(p, b) ==
    \/ /\ (FEq(p.x, b[1].x) \/ FEq(p.x, b[2].x))
       /\ FLe(b[1].y, p.y) /\ FLe(p.y, b[2].y)
    \/ /\ (FEq(p.y, b[1].y) \/ FEq(p.y, b[2].y))
       /\ FLe(b[1].x, p.x) /\ FLe(p.x, b[2].x)

\* Light positions and target points of the ray caster's calls.
RayLightX == {I(-400), I(0), I(400), I(480)}
RayLightY == {I(-200), I(0), I(100)}
RayTargetX == {I(-480), I(-30), NegZero, I(0), I(30), I(400)}
RayTargetY == {I(-250), I(-150), NegZero, I(0), I(100)}

InitRay ==
    /\ SetupWorld
    /\ call \in [fn : {"intersect"},
                 u : {Vec2(x, y) : x \in RayLightX, y \in RayLightY},
                 v : {Vec2(x, y) : x \in RayTargetX, y \in RayTargetY}]
    /\ ret = NoRet

CallIntersect ==
    /\ call.fn = "intersect"
    /\ ret = NoRet
    /\ ret' = [kind |-> "point",
               p |-> CalculateIntersectionToWorldBoundary(call.u, call.v, WorldBoundary)]
    /\ UNCHANGED <<world, call>>

NextRay == CallIntersect

SpecRay == InitRay /\ [][NextRay]_vars

\* The ray direction of the call under check.
CallRay == VSub(call.v, call.u)

\* Light positions and obstacle transforms of the shadow caster's calls: the
\* obstacles of setup, one reaching over the world's right edge and one turned.
ShadowLightX == {I(-400), I(0), I(30), I(400)}
ShadowLightY == {I(-200), I(-150), I(0)}
ShadowObstacles ==
    Range(SetupObstacles)
    \cup {Transform(V(470, 0), V(60, 100), 0), Transform(V(0, -200), V(60, 100), -45)}

InitShadow ==
    /\ SetupWorld
    /\ call \in [fn : {"shadow"},
                 light : {Vec2(x, y) : x \in ShadowLightX, y \in ShadowLightY},
                 obstacle : ShadowObstacles]
    /\ ret = NoRet

CallShadow ==
    /\ call.fn = "shadow"
    /\ ret = NoRet
    /\ \E nan_panics \in BOOLEAN :
          ret' = CalculateShadowPolygonFromObstacle(call.light, call.obstacle,
                                                    WorldBoundary, nan_panics)
    /\ UNCHANGED <<world, call>>

NextShadow == CallShadow

SpecShadow == InitShadow /\ [][NextShadow]_vars

\* The operands of the boolean operations' calls.
UnitSquare == Polygon({V(0, 0), V(1, 0), V(1, 1), V(0, 1)})
OffGrid == Polygon({Vec2(Num(1, 4), I(0)), Vec2(I(3), Num(1, 20)), Vec2(I(0), Num(7, 3))})
Operands ==
    {EmptyMultiPolygon, MultiPolygonOf(UnitSquare), MultiPolygonOf(OffGrid),
     MultiPolygonOf(UnitSquare) \cup MultiPolygonOf(OffGrid)}
Region(mp) == [kind |-> "region", region |-> mp]

InitOps ==
    /\ SetupWorld
    /\ call \in [fn : {"xor", "difference", "scaled_union", "scaled_intersection"},
                 self : Operands, other : Operands]
    /\ ret = NoRet

CallXor ==
    /\ call.fn = "xor"
    /\ ret = NoRet
    /\ ret' = Xor(call.self, call.other)
    /\ UNCHANGED <<world, call>>

CallDifference ==
    /\ call.fn = "difference"
    /\ ret = NoRet
    /\ ret' = Difference(call.self, call.other)
    /\ UNCHANGED <<world, call>>

CallScaledUnion ==
    /\ call.fn = "scaled_union"
    /\ ret = NoRet
    /\ ret' = Region(ScaledUnion(call.self, call.other, I(SCALE)))
    /\ UNCHANGED <<world, call>>

CallScaledIntersection ==
    /\ call.fn = "scaled_intersection"
    /\ ret = NoRet
    /\ ret' = Region(ScaledIntersection(call.self, call.other, I(SCALE)))
    /\ UNCHANGED <<world, call>>

NextOps ==
    \/ CallXor
    \/ CallDifference
    \/ CallScaledUnion
    \/ CallScaledIntersection

SpecOps == InitOps /\ [][NextOps]_vars

\* The lists of lights and of obstacles of the aggregation's calls: up to
\* MaxLights light positions and up to MaxObstacles obstacle transforms.
MaxLights == 3
MaxObstacles == 1
SeqsUpTo(set, n) == UNION {[1..k -> set] : k \in 0..n}
AggregateLights == {V(400, 0), V(-400, 0)}

InitAggregate ==
    /\ SetupWorld
    /\ call \in [fn : {"aggregate"},
                 lights : SeqsUpTo(AggregateLights, MaxLights),
                 obstacles : SeqsUpTo(Range(SetupObstacles), MaxObstacles)]
    /\ ret = NoRet

CallAggregate ==
    /\ call.fn = "aggregate"
    /\ ret = NoRet
    /\ \E nan_panics \in BOOLEAN :
          ret' = Aggregate(call.lights, call.obstacles, nan_panics)
    /\ UNCHANGED <<world, call>>

NextAggregate == CallAggregate

SpecAggregate == InitAggregate /\ [][NextAggregate]_vars

(***************************************************************************)
(* C1: for every light strictly inside the world boundary and every target *)
(* point different from the light, the returned point lies on the          *)
(* perimeter of the boundary.                                              *)
(***************************************************************************)
C1_ExitOnPerimeter ==
    (/\ call.fn = "intersect"
     /\ ret # NoRet
     /\ StrictlyInside(call.u, WorldBoundary)
     /\ ~VEq(call.v, call.u))
    => OnPerimeter(ret.p, WorldBoundary)

(***************************************************************************)
(* C2: when the ray direction has a zero x component and a non-zero y      *)
(* component, the exit point lies on a horizontal edge with x = light.x;   *)
(* when it has a zero y component and a non-zero x component, the exit     *)
(* point lies on a vertical edge with y = light.y.                         *)
(***************************************************************************)
C2_ZeroComponentGuarded ==
    (/\ call.fn = "intersect"
     /\ ret # NoRet
     /\ StrictlyInside(call.u, WorldBoundary))
    => /\ (FEq(CallRay.x, I(0)) /\ ~FEq(CallRay.y, I(0)))
          => /\ FEq(ret.p.y, WorldBoundary[1].y) \/ FEq(ret.p.y, WorldBoundary[2].y)
             /\ FEq(ret.p.x, call.u.x)
       /\ (FEq(CallRay.y, I(0)) /\ ~FEq(CallRay.x, I(0)))
          => /\ FEq(ret.p.x, WorldBoundary[1].x) \/ FEq(ret.p.x, WorldBoundary[2].x)
             /\ FEq(ret.p.y, call.u.y)


(***************************************************************************)
(* C3: for every light and every obstacle rectangle, every vertex of the   *)
(* polygon that calculate_shadow_polygon_from_obstacle returns lies within *)
(* the world boundary, inclusive.                                          *)
(***************************************************************************)
C3_VerticesWithinBoundary ==
    (/\ call.fn = "shadow"
     /\ ret # NoRet
     /\ ret.kind = "polygon")
    => \A v \in ret.vertices : WithinBoundary(v, WorldBoundary)

\* The light lies inside or exactly on the obstacle's rectangle.
LightInOrOnObstacle(light_position, obstacle_transform) ==
    PointInRing(light_position, CalculateVertices(obstacle_transform))

(***************************************************************************)
(* C4: when the light lies inside or exactly on the obstacle's rectangle,  *)
(* the call returns no shadow shape: it ends in a distinguishable          *)
(* degenerate-geometry failure, neither a crash nor a polygon.             *)
(***************************************************************************)
C4_DegenerateSurfaces ==
    (/\ call.fn = "shadow"
     /\ ret # NoRet
     /\ LightInOrOnObstacle(call.light, call.obstacle))
    => ret.kind = "degenerate"

(***************************************************************************)
(* C5, as amended: the aggregation run with an empty list of obstacles and *)
(* a non-empty list of lights completes without failure and yields an      *)
(* empty union region and an empty intersection region.                    *)
(***************************************************************************)
C5_EmptyObstaclesSomeLights ==
    (/\ call.fn = "aggregate"
     /\ ret # NoRet
     /\ call.obstacles = <<>>
     /\ call.lights # <<>>)
    => /\ ret.kind = "regions"
       /\ ret.union = EmptyMultiPolygon
       /\ ret.intersection = EmptyMultiPolygon

C5_Witness ==
    /\ call.fn = "aggregate"
    /\ ret # NoRet
    /\ call.obstacles = <<>>
    /\ Len(call.lights) = 2
    /\ ret.kind = "regions"

\* C5 as stated: the same for any list of lights, the empty one included.
C5_EmptyObstaclesAnyLights ==
    (/\ call.fn = "aggregate"
     /\ ret # NoRet
     /\ call.obstacles = <<>>)
    => /\ ret.kind = "regions"
       /\ ret.union = EmptyMultiPolygon
       /\ ret.intersection = EmptyMultiPolygon

(***************************************************************************)
(* C6: every call of xor or difference fails, whatever the operands: it    *)
(* never returns a region.                                                 *)
(***************************************************************************)
C6_UnsupportedFails ==
    (/\ call.fn \in {"xor", "difference"}
     /\ ret # NoRet)
    => ret = Panic

C6_Witness ==
    /\ call.fn \in {"xor", "difference"}
    /\ call.self # EmptyMultiPolygon
    /\ call.other # EmptyMultiPolygon
    /\ ret = Panic

\* The scenario of C7: the light at (400, 0) and the axis-aligned obstacle of
\* size 60x100 centred at (0, -200); Cast(i) is the boundary-cast point of the
\* obstacle's i-th corner (1, 2: the lower corners; 3, 4: the upper ones).
Scenario ==
    /\ call.fn = "shadow"
    /\ ret # NoRet
    /\ VEq(call.light, V(400, 0))
    /\ call.obstacle = Transform(V(0, -200), V(60, 100), 0)
Cast(i) ==
    CalculateIntersectionToWorldBoundary(call.light,
                                         CalculateVertices(call.obstacle)[i],
                                         WorldBoundary)

(***************************************************************************)
(* C7, as amended: in the scenario the boundary-cast points of the two     *)
(* upper corners have x = -480 and those of the two lower corners have     *)
(* y = -360; the polygon returned has the world corner (-480, -360) as a   *)
(* vertex, and each of its vertices is an obstacle corner or lies on the   *)
(* boundary at x = -480 or at y = -360.                                    *)
(***************************************************************************)
C7_FarEdges ==
    Scenario
    => /\ FEq(Cast(3).x, I(-480)) /\ FEq(Cast(4).x, I(-480))
       /\ FEq(Cast(1).y, I(-360)) /\ FEq(Cast(2).y, I(-360))
       /\ ~FEq(Cast(1).x, I(-480)) /\ ~FEq(Cast(2).x, I(-480))
       /\ ret.kind = "polygon"
       /\ V(-480, -360) \in ret.vertices
       /\ \A v \in ret.vertices :
             \/ v \in Range(CalculateVertices(call.obstacle))
             \/ FEq(v.x, I(-480)) /\ WithinBoundary(v, WorldBoundary)
             \/ FEq(v.y, I(-360)) /\ WithinBoundary(v, WorldBoundary)

C7_Witness ==
    /\ Scenario
    /\ ret.kind = "polygon"
    /\ Cast(4) \in ret.vertices

\* C7 as stated: every boundary-cast point of the four corners has x = -480.
C7_FarEdgeAtMinX ==
    Scenario => \A i \in 1..4 : FEq(Cast(i).x, I(-480))

(***************************************************************************)
(* C8: no shadow persists across frames.  When a frame's commands are      *)
(* applied, the Shadow entities are exactly the polygons of the union and  *)
(* intersection regions that update computed in that frame: every Shadow   *)
(* entity of an earlier frame is despawned.                                *)
(***************************************************************************)
C8_NoShadowPersists ==
    (phase = "applied" /\ computed.kind = "regions")
    => \E nan_panics \in BOOLEAN :
          LET regions == Aggregated(computed.lights, obstacles, nan_panics)
          IN  /\ regions # Panic
              /\ shadows = ShadowEntities(regions.union, "union", parity)
                           \cup ShadowEntities(regions.intersection, "intersection", parity)

\* A second or later frame is over, its update ran after a light was moved.
C8_Witness ==
    /\ phase = "applied"
    /\ computed.kind = "regions"
    /\ computed.lights # [i \in 1..Len(SetupLights) |-> SetupLights[i].translation]
    /\ shadows # {}

(***************************************************************************)
(* C9: whatever the cursor and the left button do, every light position    *)
(* that update passes to calculate_intersection_to_world_bondary is        *)
(* strictly inside the world boundary.                                     *)
(***************************************************************************)
C9_LightsInsideWorld ==
    computed # NotComputed
    => \A i \in 1..Len(computed.lights) :
          StrictlyInside(computed.lights[i], WorldBoundary)

(***************************************************************************)
(* C10: in every reachable state at most one entity carries Dragging.      *)
(***************************************************************************)
C10_AtMostOneDragging == Cardinality(dragging) <= 1

\* A light is being dragged and lies on the other one, the button down again.
C10_Witness ==
    /\ Cardinality(dragging) = 1
    /\ lights[1].translation = lights[2].translation
    /\ mouse.just_pressed
    /\ "grab_object" \notin pending
    /\ phase = "run"


(***************************************************************************)
(* C11: an entity carries Dragging only while the left button is held.     *)
(* At the end of every frame (its commands applied) in which the left      *)
(* button is not pressed, no entity carries Dragging; a frame in which the *)
(* button was both pressed and released is such a frame.                   *)
(***************************************************************************)
C11_DraggingOnlyWhileHeld ==
    (phase = "applied" /\ ~mouse.pressed) => dragging = {}

====
